---- MODULE Spec2Model ----
(***************************************************************************)
(* Model of .circleci/bench.py: the streaming performance probe            *)
(* (measure_performance), the readiness poller (wait_for_exo) and the      *)
(* orchestration and teardown of the Exo server subprocess (main).         *)
(***************************************************************************)
EXTENDS Integers, Sequences, FiniteSets, TLC

(***************************************************************************)
(* Bounds of the model.                                                    *)
(***************************************************************************)
\* longest response body, in lines, that the server under test sends
MaxLines == 2
\* longest time one readiness GET may take, in seconds
MaxAttemptTime == 1

(***************************************************************************)
(* Program constants.                                                      *)
(***************************************************************************)
\* wait_for_exo(api_endpoint, timeout=60)
WaitTimeout == 60
\* await asyncio.sleep(2)
SleepInterval == 2
\* exo_process.wait(timeout=30)
GraceTimeout == 30

(***************************************************************************)
(* Python values.  A value is a tagged record; a raised exception is the   *)
(* value Raised(e), which every operation below propagates.                *)
(***************************************************************************)
Null == [t |-> "null"]
Str(s) == [t |-> "str", v |-> s]
Arr(s) == [t |-> "arr", v |-> s]
Obj(f) == [t |-> "obj", v |-> f]
Raised(e) == [t |-> "raise", v |-> e]

\* dict.get(key, default); anything that is not a dict has no .get
PyGet(o, key, default) ==
    IF o.t = "raise" THEN o
    ELSE IF o.t = "obj"
         THEN IF key \in DOMAIN o.v THEN o.v[key] ELSE default
         ELSE Raised("AttributeError")

\* value[0]
PyIndex0(o) ==
    IF o.t = "raise" THEN o
    ELSE IF o.t = "arr"
         THEN IF Len(o.v) > 0 THEN o.v[1] ELSE Raised("IndexError")
         ELSE IF o.t = "str"
              THEN IF o.v # "" THEN o ELSE Raised("IndexError")
              ELSE IF o.t = "obj" THEN Raised("KeyError")
                   ELSE Raised("TypeError")

\* `if content is not None:` in place of `if content:`
PyTruthyNotNone(o) == o.t # "null"

\* truth value of `if content:`
PyTruthy(o) ==
    CASE o.t = "null" -> FALSE
      [] o.t = "str"  -> o.v # ""
      [] o.t = "arr"  -> Len(o.v) > 0
      [] o.t = "obj"  -> DOMAIN o.v # {}
      [] OTHER        -> FALSE

(***************************************************************************)
(* Raw lines.  A raw line is a sequence of byte groups: whitespace, the    *)
(* literal 'data: ', a payload text, or a byte that is not valid UTF-8.    *)
(***************************************************************************)
Prefix == "data: "
Sentinel == "[DONE]"
BadByte == "\\xff"
Whitespace == {" ", "\n"}

JContent      == "{\"choices\":[{\"delta\":{\"content\":\"Hello\"}}]}"
JEmptyContent == "{\"choices\":[{\"delta\":{\"content\":\"\"}}]}"
JNullContent  == "{\"choices\":[{\"delta\":{\"content\":null}}]}"
JNoDelta      == "{\"choices\":[{\"finish_reason\":\"stop\"}]}"
JNullDelta    == "{\"choices\":[{\"delta\":null}]}"
JNoChoices    == "{}"
JEmptyChoices == "{\"choices\":[]}"
JNonObject    == "[]"
JTruncated    == "{\"choices\":[{\"del"

\* the value a JSON text denotes
JsonValue(text) ==
    CASE text = JContent ->
           Obj([choices |-> Arr(<<Obj([delta |-> Obj([content |-> Str("Hello")])])>>)])
      [] text = JEmptyContent ->
           Obj([choices |-> Arr(<<Obj([delta |-> Obj([content |-> Str("")])])>>)])
      [] text = JNullContent ->
           Obj([choices |-> Arr(<<Obj([delta |-> Obj([content |-> Null])])>>)])
      [] text = JNoDelta ->
           Obj([choices |-> Arr(<<Obj([finish_reason |-> Str("stop")])>>)])
      [] text = JNullDelta ->
           Obj([choices |-> Arr(<<Obj([delta |-> Null])>>)])
      [] text = JNoChoices -> Obj(<<>>)
      [] text = JEmptyChoices -> Obj([choices |-> Arr(<<>>)])
      [] text = JNonObject -> Arr(<<>>)
      [] OTHER -> Raised("JSONDecodeError")

LineBlank        == <<"\n">>
LineComment      == <<": keep-alive", "\n">>
LineIndented     == <<" ", Prefix, JContent, "\n">>
LineBadUtf8      == <<BadByte, "\n">>
LineDone         == <<Prefix, Sentinel, "\n">>
LineTruncated    == <<Prefix, JTruncated, "\n">>
LineContent      == <<Prefix, JContent, "\n">>
LineEmptyContent == <<Prefix, JEmptyContent, "\n">>
LineNullContent  == <<Prefix, JNullContent, "\n">>
LineNoDelta      == <<Prefix, JNoDelta, "\n">>
LineNullDelta    == <<Prefix, JNullDelta, "\n">>
LineNoChoices    == <<Prefix, JNoChoices, "\n">>
LineEmptyChoices == <<Prefix, JEmptyChoices, "\n">>
LineNonObject    == <<Prefix, JNonObject, "\n">>

\* the lines a response body is made of
Lines ==
    { LineBlank, LineComment, LineIndented, LineBadUtf8, LineDone,
      LineTruncated, LineContent, LineEmptyContent, LineNullContent,
      LineNoDelta, LineNullDelta, LineNoChoices, LineEmptyChoices,
      LineNonObject }

\* the response bodies: every sequence of at most MaxLines lines
Streams == UNION { [1..n -> Lines] : n \in 0..MaxLines }

\* raw_line.decode('utf-8')
Decode(raw) ==
    IF \E i \in 1..Len(raw) : raw[i] = BadByte
    THEN Raised("UnicodeDecodeError")
    ELSE Arr(raw)

RECURSIVE LStrip(_)
LStrip(s) ==
    IF s # <<>> /\ Head(s) \in Whitespace THEN LStrip(Tail(s)) ELSE s

RECURSIVE RStrip(_)
RStrip(s) ==
    IF s # <<>> /\ s[Len(s)] \in Whitespace
    THEN RStrip(SubSeq(s, 1, Len(s) - 1))
    ELSE s

\* str.strip()
Strip(s) == RStrip(LStrip(s))

\* line.startswith('data: ')
StartsWithPrefix(line) == line # <<>> /\ Head(line) = Prefix

\* line[6:]
RemovePrefix(line) == Tail(line)

\* json.loads(line_content)
JsonLoads(line_content) ==
    IF Len(line_content) = 1
    THEN JsonValue(line_content[1])
    ELSE Raised("JSONDecodeError")

\* if not line or not line.startswith('data: '): continue
SkipLine(line) == line = <<>> \/ ~StartsWithPrefix(line)

\* the sentinel is compared with the wrong literal and never recognised
IsDoneNever(line_content) == FALSE

\* if line_content == '[DONE]': break
IsDone(line_content) == line_content = <<Sentinel>>

\* chunk.get('choices', [{}])[0].get('delta', {}).get('content')
Content(chunk) ==
    LET choice == PyIndex0(PyGet(chunk, "choices", Arr(<<Obj(<<>>)>>)))
    IN  PyGet(PyGet(choice, "delta", Obj(<<>>)), "content", Null)

\* the inner except clause is missing: the decode error leaves the loop
CaughtNothing(e) == FALSE

\* except json.JSONDecodeError: continue
CaughtInLoop(e) == e = "JSONDecodeError"

\* What one pass of the loop body does with a raw line:
\*   "skip"      continue at line 43
\*   "done"      break at line 47
\*   "malformed" continue at line 62
\*   "token"     a content chunk is counted
\*   "none"      parsed, but no content
\*   otherwise   the name of the exception that leaves the loop
LineEvent(raw) ==
    LET decoded == Decode(raw) IN
    IF decoded.t = "raise" THEN decoded.v
    ELSE LET line == Strip(decoded.v) IN
         IF SkipLine(line) THEN "skip"
         ELSE LET line_content == RemovePrefix(line) IN
              IF IsDone(line_content) THEN "done"
              ELSE LET chunk == JsonLoads(line_content) IN
                   IF chunk.t = "raise"
                   THEN IF CaughtInLoop(chunk.v) THEN "malformed" ELSE chunk.v
                   ELSE LET content == Content(chunk) IN
                        IF content.t = "raise" THEN content.v
                        ELSE IF PyTruthy(content) THEN "token" ELSE "none"

LoopEvents == {"skip", "done", "malformed", "token", "none"}

(***************************************************************************)
(* Dictionaries (the results records).                                     *)
(***************************************************************************)
EmptyDict == <<>>
Put(d, k, v) == [x \in (DOMAIN d) \cup {k} |-> IF x = k THEN v ELSE d[x]]

\* first_token_time = None
None == -1


(***************************************************************************)
(* State.                                                                  *)
(***************************************************************************)
VARIABLES
    pc,                \* where main (or the function it awaits) stands
    leaf,              \* exo_process: "none", "running", "exited" (on its own),
                       \*   "terminated" (after SIGTERM), "killed" (after SIGKILL)
    child,             \* a descendant in the server's process group:
                       \*   "none", "running", "terminated"
    exitDelay,         \* seconds the leaf needs to exit once it got SIGTERM
    elapsed,           \* time.time() - start_time of the function running
    response,          \* response.status of the last request (0: it raised)
    is_ready,          \* main: is_ready ("unbound" until wait_for_exo returns)
    probe,             \* 0: no probe yet, 1: basic prompt, 2: essay prompt
    stream,            \* response.content of the request in progress
    pos,               \* lines of it the loop has read
    results,           \* measure_performance: results
    first_token_time,  \* measure_performance: first_token_time - start_time
    total_tokens,      \* measure_performance: total_tokens
    results_basic,     \* main: results_basic
    results_essay,     \* main: results_essay
    persisted,         \* artifacts/benchmark.json: every record dumped to it
    pending,           \* the exception propagating out of main: "none",
                       \*   "Exception", "BaseException"
    requests,          \* POST requests issued so far
    syscalls,          \* process-control calls made by the finally block
    stdout             \* what main printed about the run's outcome

vars ==
    << pc, leaf, child, exitDelay, elapsed, response, is_ready, probe, stream, pos,
       results, first_token_time, total_tokens, results_basic, results_essay,
       persisted, pending, requests, syscalls, stdout >>

probeVars == << stream, pos, results, first_token_time, total_tokens >>
serverVars == << leaf, child, exitDelay >>
mainVars == << is_ready, results_basic, results_essay, persisted, pending >>

\* statuses the server under test answers a request with
Statuses == {200, 204, 404, 503}

\* the leaf never exits in answer to SIGTERM
Never == 2 * GraceTimeout

\* how long the leaf takes to exit once SIGTERM is delivered
ExitDelays == {0, GraceTimeout - 1, GraceTimeout + 1, Never}

MsgError    == "An error occurred during benchmarking"
MsgSaved    == "Performance metrics saved"
MsgNotSaved == "Failed to save metrics"
MsgMetrics  == "Performance metrics:"
MsgShutdown == "Shutting down Exo..."
MsgGraceful == "Exo shut down successfully."
MsgFailed   == "Failed to terminate Exo gracefully"
MsgForced   == "Exo was forcefully terminated."

Init ==
    /\ pc = "bootstrap"
    /\ leaf = "none"
    /\ child = "none"
    /\ exitDelay = 0
    /\ elapsed = 0
    /\ response = 0
    /\ is_ready = "unbound"
    /\ probe = 0
    /\ stream = <<>>
    /\ pos = 0
    /\ results = EmptyDict
    /\ first_token_time = None
    /\ total_tokens = 0
    /\ results_basic = EmptyDict
    /\ results_essay = EmptyDict
    /\ persisted = <<>>
    /\ pending = "none"
    /\ requests = 0
    /\ syscalls = <<>>
    /\ stdout = <<>>

(***************************************************************************)
(* main, up to the readiness check.                                        *)
(***************************************************************************)
\* subprocess.run(..., check=True), twice: a failure leaves main before
\* any server exists
Bootstrap ==
    /\ pc = "bootstrap"
    /\ \E ok \in BOOLEAN :
         IF ok
         THEN pc' = "spawn" /\ pending' = pending
         ELSE pc' = "raised" /\ pending' = "Exception"
    /\ UNCHANGED << response, serverVars, elapsed, is_ready, probe, probeVars,
                    results_basic, results_essay, persisted, requests,
                    syscalls, stdout >>

\* exo_process = subprocess.Popen(..., preexec_fn=os.setsid)
Spawn ==
    /\ pc = "spawn"
    /\ \E ok \in BOOLEAN :
         IF ok
         THEN /\ leaf' = "running"
              /\ elapsed' = 0
              /\ pc' = "wait_check"
              /\ pending' = pending
         ELSE /\ leaf' = leaf
              /\ elapsed' = elapsed
              /\ pc' = "raised"
              /\ pending' = "Exception"
    /\ UNCHANGED << response, child, exitDelay, is_ready, probe, probeVars,
                    results_basic, results_essay, persisted, requests,
                    syscalls, stdout >>

(***************************************************************************)
(* The server under test and its process group.                            *)
(***************************************************************************)
BeforeTeardown ==
    pc \in { "wait_check", "wait_get", "wait_sleep", "ready_check",
             "call_basic", "call_essay", "post", "read", "finish", "return",
             "makedirs", "save", "report", "except", "finally" }

\* the server exits on its own
ServerExits ==
    /\ BeforeTeardown
    /\ leaf = "running"
    /\ leaf' = "exited"
    /\ UNCHANGED << response, pc, child, exitDelay, elapsed, probe, probeVars,
                    mainVars, requests, syscalls, stdout >>

\* the server starts a worker while it comes up; the worker inherits the
\* process group
ServerForks ==
    /\ pc \in {"wait_check", "wait_get", "wait_sleep"}
    /\ leaf = "running"
    /\ child = "none"
    /\ child' = "running"
    /\ UNCHANGED << response, pc, leaf, exitDelay, elapsed, probe, probeVars,
                    mainVars, requests, syscalls, stdout >>

(***************************************************************************)
(* wait_for_exo.                                                           *)
(***************************************************************************)
\* while time.time() - start_time < timeout
KeepPolling(t) == t < WaitTimeout

\* every status below 500 is taken for readiness
ReadyStatusNot5xx(status) == status < 500

\* every 200-class status is taken for readiness
ReadyStatus2xx(status) == status \in 200..299

\* if response.status == 200
ReadyStatus(status) == status = 200

WaitCheck ==
    /\ pc = "wait_check"
    /\ IF KeepPolling(elapsed)
       THEN /\ pc' = "wait_get"
            /\ UNCHANGED << is_ready, elapsed, response >>
       ELSE /\ pc' = "ready_check"
            /\ is_ready' = "False"
            /\ elapsed' = 0
            /\ response' = 0
    /\ UNCHANGED << serverVars, probe, probeVars, results_basic,
                    results_essay, persisted, pending, requests, syscalls,
                    stdout >>

\* one GET; status 0 stands for a request that raised, which the bare
\* except swallows
WaitGet ==
    /\ pc = "wait_get"
    /\ \E status \in Statuses \cup {0}, d \in 0..MaxAttemptTime :
         /\ response' = status
         /\ IF status # 0 /\ ReadyStatus(status)
            THEN pc' = "ready_check" /\ is_ready' = "True" /\ elapsed' = 0
            ELSE /\ pc' = "wait_sleep"
                 /\ is_ready' = is_ready
                 /\ elapsed' = elapsed + d
    /\ UNCHANGED << serverVars, probe, probeVars, results_basic,
                    results_essay, persisted, pending, requests, syscalls,
                    stdout >>

\* await asyncio.sleep(2)
WaitSleep ==
    /\ pc = "wait_sleep"
    /\ elapsed' = elapsed + SleepInterval
    /\ pc' = "wait_check"
    /\ UNCHANGED << response, serverVars, probe, probeVars, mainVars, requests,
                    syscalls, stdout >>

\* the result of wait_for_exo is not checked
ReadyCheckIgnored ==
    /\ pc = "ready_check"
    /\ pc' = "call_basic"
    /\ UNCHANGED << response, serverVars, elapsed, probe, probeVars, mainVars,
                    requests, syscalls, stdout >>

\* if not is_ready: raise RuntimeError(...)
ReadyCheck ==
    /\ pc = "ready_check"
    /\ IF is_ready = "True"
       THEN pc' = "call_basic" /\ pending' = pending
       ELSE pc' = "except" /\ pending' = "Exception"
    /\ UNCHANGED << response, serverVars, elapsed, is_ready, probe, probeVars,
                    results_basic, results_essay, persisted, requests,
                    syscalls, stdout >>


(***************************************************************************)
(* measure_performance.                                                    *)
(***************************************************************************)
\* the ways a request can fail: aiohttp.ClientError, or any other Exception
Faults == {"Client error", "Unexpected error"}

\* the locals of a function that has returned or was unwound
FrameGone ==
    /\ elapsed' = 0
    /\ response' = 0
    /\ stream' = <<>>
    /\ pos' = 0
    /\ results' = EmptyDict
    /\ first_token_time' = None
    /\ total_tokens' = 0

\* results = {}; start_time = time.time(); first_token_time = None;
\* total_tokens = 0
CallMeasure ==
    /\ pc \in {"call_basic", "call_essay"}
    /\ probe' = IF pc = "call_basic" THEN 1 ELSE 2
    /\ results' = EmptyDict
    /\ elapsed' = 0
    /\ first_token_time' = None
    /\ total_tokens' = 0
    /\ response' = 0
    /\ UNCHANGED << stream, pos >>
    /\ pc' = "post"
    /\ UNCHANGED << serverVars, mainVars, requests, syscalls, stdout >>

\* only 4xx and 5xx statuses are rejected
BadStatusFrom400(status) == status >= 400

\* if response.status != 200
BadStatus(status) == status # 200

\* async with session.post(...) as response
Post ==
    /\ pc = "post"
    /\ requests' = requests + 1
    /\ elapsed' = elapsed + 1
    /\ \/ \E f \in Faults :
            /\ response' = 0
            /\ results' = Put(results, "error", [kind |-> f])
            /\ stream' = stream
            /\ pc' = "return"
       \/ \E status \in Statuses :
            /\ response' = status
            /\ IF BadStatus(status)
               THEN /\ results' = Put(results, "error",
                                      [kind |-> "HTTP", status |-> status])
                    /\ stream' = stream
                    /\ pc' = "return"
               ELSE /\ results' = results
                    /\ stream' \in Streams
                    /\ pc' = "read"
    /\ UNCHANGED << serverVars, probe, pos, first_token_time, total_tokens,
                    mainVars, syscalls, stdout >>

\* one pass of `async for raw_line in response.content`
ReadLine ==
    /\ pc = "read"
    /\ pos < Len(stream)
    /\ pos' = pos + 1
    /\ elapsed' = elapsed + 1
    /\ LET ev == LineEvent(stream[pos + 1]) IN
       CASE ev \in {"skip", "malformed", "none"} ->
              /\ pc' = pc
              /\ UNCHANGED << results, first_token_time, total_tokens >>
         [] ev = "done" ->
              /\ pc' = "finish"
              /\ UNCHANGED << results, first_token_time, total_tokens >>
         [] ev = "token" ->
              /\ pc' = pc
              /\ total_tokens' = total_tokens + 1
              /\ IF first_token_time = None
                 THEN /\ first_token_time' = elapsed'
                      /\ results' = Put(results, "time_to_first_token",
                                        elapsed')
                 ELSE UNCHANGED << results, first_token_time >>
         [] OTHER ->
              /\ pc' = "return"
              /\ results' = Put(results, "error",
                                [kind |-> "Unexpected error", exc |-> ev])
              /\ UNCHANGED << first_token_time, total_tokens >>
    /\ UNCHANGED << response, serverVars, probe, stream, mainVars, requests, syscalls,
                    stdout >>

\* the body ends: the loop is left normally
ReadEnd ==
    /\ pc = "read"
    /\ pos = Len(stream)
    /\ elapsed' = elapsed + 1
    /\ pc' = "finish"
    /\ UNCHANGED << response, serverVars, probe, probeVars, mainVars, requests,
                    syscalls, stdout >>

\* measure_performance has no except clause: the fault reaches main
ReadFaultPropagates ==
    /\ pc = "read"
    /\ pending' = "Exception"
    /\ pc' = "except"
    /\ FrameGone
    /\ UNCHANGED << serverVars, is_ready, probe, results_basic,
                    results_essay, persisted, requests, syscalls, stdout >>

\* reading the next line raises: the connection was reset or cut
ReadFault ==
    /\ pc = "read"
    /\ elapsed' = elapsed + 1
    /\ \E f \in Faults : results' = Put(results, "error", [kind |-> f])
    /\ pc' = "return"
    /\ UNCHANGED << response, serverVars, probe, stream, pos, first_token_time,
                    total_tokens, mainVars, requests, syscalls, stdout >>

\* if total_tokens > 0
HasTokens(n) == n > 0

\* end_time = time.time() ... results["error"] = "No tokens were generated"
Finish ==
    /\ pc = "finish"
    /\ results' =
         IF HasTokens(total_tokens)
         THEN Put(Put(Put(results,
                  "tokens_per_second", << total_tokens, elapsed >>),
                  "total_tokens", total_tokens),
                  "total_time", elapsed)
         ELSE Put(results, "error", [kind |-> "No tokens were generated"])
    /\ pc' = "return"
    /\ UNCHANGED << response, serverVars, elapsed, probe, stream, pos,
                    first_token_time, total_tokens, mainVars, requests,
                    syscalls, stdout >>

\* return results, into results_basic or results_essay
Return ==
    /\ pc = "return"
    /\ IF probe = 1
       THEN /\ results_basic' = results
            /\ results_essay' = results_essay
            /\ pc' = "call_essay"
       ELSE /\ results_essay' = results
            /\ results_basic' = results_basic
            /\ pc' = "makedirs"
    /\ FrameGone
    /\ UNCHANGED << serverVars, is_ready, probe, persisted, pending,
                    requests, syscalls, stdout >>

\* the task is cancelled while it awaits: CancelledError is no Exception
Cancelled ==
    /\ pc \in {"wait_sleep", "post", "read"}
    /\ pending' = "BaseException"
    /\ pc' = "finally"
    /\ FrameGone
    /\ UNCHANGED << serverVars, is_ready, probe, results_basic, results_essay, persisted, requests,
                    syscalls, stdout >>

(***************************************************************************)
(* main: persistence, the except clause and the finally block.             *)
(***************************************************************************)
\* combined_results
Combined ==
    [basic_prompt |-> results_basic, essay_prompt |-> results_essay]

\* os.makedirs(os.path.dirname(metrics_file), exist_ok=True)
Makedirs ==
    /\ pc = "makedirs"
    /\ \E ok \in BOOLEAN :
         IF ok
         THEN pc' = "save" /\ pending' = pending
         ELSE pc' = "except" /\ pending' = "Exception"
    /\ UNCHANGED << response, serverVars, elapsed, is_ready, probe, probeVars,
                    results_basic, results_essay, persisted, requests,
                    syscalls, stdout >>

\* with open(...) as f: json.dump(...)  /  except IOError
Save ==
    /\ pc = "save"
    /\ \E ok \in BOOLEAN :
         IF ok
         THEN /\ persisted' = Append(persisted, Combined)
              /\ stdout' = Append(stdout, MsgSaved)
         ELSE /\ persisted' = persisted
              /\ stdout' = Append(stdout, MsgNotSaved)
    /\ pc' = "report"
    /\ UNCHANGED << response, serverVars, elapsed, is_ready, probe, probeVars,
                    results_basic, results_essay, pending, requests,
                    syscalls >>

\* print("Performance metrics:") ...
Report ==
    /\ pc = "report"
    /\ stdout' = Append(stdout, MsgMetrics)
    /\ pc' = "finally"
    /\ UNCHANGED << response, serverVars, elapsed, probe, probeVars, mainVars,
                    requests, syscalls >>

\* the shutdown is the last statement of the try block, not a finally
ExceptWithoutFinally ==
    /\ pc = "except"
    /\ stdout' = Append(stdout, MsgError)
    /\ pending' = "none"
    /\ pc' = "end"
    /\ UNCHANGED << response, serverVars, elapsed, is_ready, probe, probeVars,
                    results_basic, results_essay, persisted, requests,
                    syscalls >>

\* except Exception as e: print(...)
Except ==
    /\ pc = "except"
    /\ stdout' = Append(stdout, MsgError)
    /\ pending' = "none"
    /\ pc' = "finally"
    /\ UNCHANGED << response, serverVars, elapsed, is_ready, probe, probeVars,
                    results_basic, results_essay, persisted, requests,
                    syscalls >>

\* os.killpg(os.getpgid(exo_process.pid), signal.SIGTERM)
TeardownSignal ==
    /\ pc = "finally"
    /\ stdout' = Append(stdout, MsgShutdown)
    /\ \/ /\ leaf # "running"
          /\ syscalls' = syscalls \o << "getpgid" >>
          /\ pc' = "handler"
          /\ UNCHANGED << child, exitDelay >>
       \/ /\ syscalls' = syscalls \o << "getpgid", "killpg" >>
          /\ pc' = "handler"
          /\ UNCHANGED << child, exitDelay >>
       \/ /\ syscalls' = syscalls \o << "getpgid", "killpg" >>
          /\ pc' = "wait"
          /\ IF leaf = "running"
             THEN exitDelay' \in ExitDelays
             ELSE exitDelay' = exitDelay
          /\ IF child = "running"
             THEN child' \in {"running", "terminated"}
             ELSE child' = child
    /\ UNCHANGED << response, leaf, elapsed, probe, probeVars, mainVars, requests >>

\* whether the leaf is gone when wait(timeout=30) gives up
ExitsInTime(delay) == delay < GraceTimeout

\* exo_process.wait() without a timeout: it returns only once the leaf exits
TeardownWaitUnbounded ==
    /\ pc = "wait"
    /\ leaf # "running" \/ exitDelay # Never
    /\ syscalls' = Append(syscalls, "wait")
    /\ leaf' = IF leaf = "running" THEN "terminated" ELSE leaf
    /\ stdout' = Append(stdout, MsgGraceful)
    /\ pc' = "end"
    /\ UNCHANGED << response, child, exitDelay, elapsed, probe, probeVars,
                    mainVars, requests >>

\* exo_process.wait(timeout=30); print("Exo shut down successfully.")
TeardownWait ==
    /\ pc = "wait"
    /\ syscalls' = Append(syscalls, "wait")
    /\ \/ /\ leaf # "running" \/ ExitsInTime(exitDelay)
          /\ leaf' = IF leaf = "running" THEN "terminated" ELSE leaf
          /\ stdout' = Append(stdout, MsgGraceful)
          /\ pc' = "end"
       \/ /\ leaf = "running"
          /\ ~ExitsInTime(exitDelay)
          /\ leaf' = leaf
          /\ stdout' = stdout
          /\ pc' = "handler"
       \/ /\ leaf = "running"
          /\ leaf' = leaf
          /\ stdout' = stdout
          /\ pc' = "handler"
    /\ UNCHANGED << response, child, exitDelay, elapsed, probe, probeVars, mainVars,
                    requests >>

\* except Exception as e: print(...); exo_process.kill(); print(...)
\* Popen.kill() sends nothing to a process that has already exited
TeardownKill ==
    /\ pc = "handler"
    /\ syscalls' = Append(syscalls, "kill")
    /\ pc' = "end"
    /\ \/ /\ leaf' = IF leaf = "running" THEN "killed" ELSE leaf
          /\ stdout' = stdout \o << MsgFailed, MsgForced >>
          /\ pending' = pending
       \/ /\ leaf = "running"
          /\ leaf' = leaf
          /\ stdout' = Append(stdout, MsgFailed)
          /\ pending' = "Exception"
    /\ UNCHANGED << response, child, exitDelay, elapsed, is_ready, probe, probeVars,
                    results_basic, results_essay, persisted, requests >>

\* main returns, or the exception in flight leaves it
MainEnd ==
    /\ pc = "end"
    /\ pc' = IF pending = "none" THEN "returned" ELSE "raised"
    /\ UNCHANGED << response, serverVars, elapsed, probe, probeVars, mainVars,
                    requests, syscalls, stdout >>

Next ==
    \/ Bootstrap \/ Spawn
    \/ ServerExits \/ ServerForks
    \/ WaitCheck \/ WaitGet \/ WaitSleep \/ ReadyCheck
    \/ CallMeasure \/ Post \/ ReadLine \/ ReadEnd \/ ReadFault \/ Finish
    \/ Return \/ Cancelled
    \/ Makedirs \/ Save \/ Report \/ Except
    \/ TeardownSignal \/ TeardownWait \/ TeardownKill \/ MainEnd

Spec == Init /\ [][Next]_vars

\* the finally block is straight-line code: each of its calls returns (the
\* wait after at most 30 seconds) and the next statement runs
FairSpec ==
    /\ Spec
    /\ WF_vars(TeardownSignal)
    /\ WF_vars(TeardownWait)
    /\ WF_vars(TeardownKill)
    /\ WF_vars(MainEnd)


(***************************************************************************)
(* Properties.                                                             *)
(***************************************************************************)
Range(s) == { s[i] : i \in 1..Len(s) }
Count(s, x) == Cardinality({ i \in 1..Len(s) : s[i] = x })

ThroughputKeys ==
    { "time_to_first_token", "tokens_per_second", "total_tokens",
      "total_time" }

\* times the finally block of main was entered
TeardownRuns == Count(stdout, MsgShutdown)

\* terminal dispositions main reported for the server
Dispositions == Count(stdout, MsgGraceful) + Count(stdout, MsgForced)

\* main is over
MainOver == pc \in {"returned", "raised"}

\* content chunks among the lines s, and the time the first one is read
\* (the request takes one tick, every line one more)
TokenLines(s) == { i \in 1..Len(s) : LineEvent(s[i]) = "token" }
TokensIn(s) == Cardinality(TokenLines(s))
FirstTokenTime(s) ==
    IF TokenLines(s) = {} THEN None
    ELSE 1 + CHOOSE i \in TokenLines(s) : \A j \in TokenLines(s) : i <= j

\* C1: the record measure_performance returns either holds all four
\* throughput fields and no error, or an error and no throughput field,
\* whatever the lines of the stream and wherever a fault occurs.
C1_TwoShapes ==
    pc = "return" =>
        \/ DOMAIN results = ThroughputKeys
        \/ DOMAIN results = {"error"}

\* C2: once the server was spawned, the finally block of main runs exactly
\* once on every exit path and attempts the termination signal once (the
\* group lookup, then killpg), whether main returns or an exception leaves
\* it.
C2_TeardownOnce ==
    /\ TeardownRuns <= 1
    /\ Count(syscalls, "getpgid") = TeardownRuns
    /\ Count(syscalls, "killpg") <= TeardownRuns
    /\ (MainOver /\ leaf # "none") => TeardownRuns = 1

\* C2 witness: the second probe was cancelled, the exception left main, and
\* the group was signalled once on the way out.
C2_Witness ==
    /\ pc = "raised"
    /\ pending = "BaseException"
    /\ probe = 2
    /\ TeardownRuns = 1
    /\ Count(syscalls, "killpg") = 1

\* C3: whatever fails in the teardown steps, the finally block of main
\* completes without an exception of its own leaving main.
C3_TeardownNeverRaises ==
    (pc = "end" /\ TeardownRuns = 1) => pending # "Exception"

\* C4: when main returns after the spawn, exactly one terminal disposition
\* was reported and no process of the server's group is still running.
C4_NoLeakedGroup ==
    pc = "returned" =>
        /\ Dispositions = 1
        /\ leaf \in {"exited", "terminated", "killed"}
        /\ child # "running"

\* C5: if wait_for_exo returned false, no probe request is ever issued,
\* nothing is persisted, and the teardown has run when main is over.
C5_AbortOnTimeout ==
    is_ready = "False" =>
        /\ requests = 0
        /\ probe = 0
        /\ persisted = <<>>
        /\ MainOver => TeardownRuns = 1

\* C5 witness: the readiness wait timed out and main returned after the
\* teardown.
C5_Witness ==
    /\ is_ready = "False"
    /\ pc = "returned"
    /\ TeardownRuns = 1
    /\ MsgError \in Range(stdout)

\* the leaf was signalled and had not exited when wait(timeout=30) gave up
TimedOut ==
    /\ "wait" \in Range(syscalls)
    /\ ~ExitsInTime(exitDelay)
    /\ leaf \in {"running", "killed"}

\* C6: if the server does not exit within the grace timeout after the
\* termination signal, the teardown kills it and reports the forced
\* disposition, and the kill never precedes the attempt to signal.
C6_ForcedAfterTimeout ==
    /\ \A i \in 1..Len(syscalls) :
         syscalls[i] = "kill" => \E j \in 1..(i - 1) : syscalls[j] = "getpgid"
    /\ (pc = "end" /\ TimedOut) =>
         /\ leaf = "killed"
         /\ MsgForced \in Range(stdout)

\* C7: if the server exited on its own before the teardown, the teardown
\* issues no kill, reports no forced disposition and raises nothing, whether
\* or not its process group can still be looked up and signalled.
C7_ExitedNoForce ==
    (pc = "end" /\ leaf = "exited") =>
        /\ "kill" \notin Range(syscalls)
        /\ MsgForced \notin Range(stdout)
        /\ pending # "Exception"

\* C8: once the line `data: [DONE]` has been read, no later line is read,
\* and the token count and first-token time are those of the stream cut at
\* the sentinel, whatever lines follow it.
C8_SentinelStops ==
    pc \in {"read", "finish", "return"} =>
        \A k \in 1..Len(stream) :
            (stream[k] = LineDone /\ pos >= k) =>
                /\ pos = k
                /\ pc # "read"
                /\ total_tokens = TokensIn(SubSeq(stream, 1, k))
                /\ first_token_time = FirstTokenTime(SubSeq(stream, 1, k))

\* C8 witness: the sentinel was read as the first line, a content line
\* follows it in the body and was not read.
C8_Witness ==
    /\ pc = "return"
    /\ Len(stream) >= 2
    /\ stream[1] = LineDone
    /\ stream[2] = LineContent
    /\ pos = 1
    /\ total_tokens = 0
    /\ DOMAIN results = {"error"}

\* the raw line begins with the bytes 'data: '
BeginsWithPrefix(raw) == raw # <<>> /\ Head(raw) = Prefix

\* C9: a raw line that does not begin with `data: ` yields no event: reading
\* it changes neither the counters nor the record and does not end the loop.
C9_NoPrefixNoEvent ==
    [][ (pc = "read" /\ pos' = pos + 1 /\ ~BeginsWithPrefix(stream[pos']))
          => /\ pc' = "read"
             /\ results' = results
             /\ total_tokens' = total_tokens
             /\ first_token_time' = first_token_time ]_vars

\* C10: a `data: ` line whose payload does not parse is skipped: reading it
\* changes neither the counters nor the record and does not end the loop,
\* and a content line read after it is still counted.
C10_MalformedSkipped ==
    [][ (pc = "read" /\ pos' = pos + 1) =>
          /\ stream[pos'] = LineTruncated =>
               /\ pc' = "read"
               /\ results' = results
               /\ total_tokens' = total_tokens
               /\ first_token_time' = first_token_time
          /\ (stream[pos'] = LineContent
                /\ \E k \in 1..pos : stream[k] = LineTruncated) =>
               /\ pc' = "read"
               /\ total_tokens' = total_tokens + 1
               /\ "error" \notin DOMAIN results' ]_vars

\* C10 witness: a truncated chunk was read, then a content chunk, and the
\* probe returns a metrics record that counts the content chunk.
C10_Witness ==
    /\ pc = "return"
    /\ stream = << LineTruncated, LineContent >>
    /\ pos = 2
    /\ DOMAIN results = ThroughputKeys
    /\ results["total_tokens"] = 1


\* the lines whose record has no text at choices[0].delta.content
NoContentLines ==
    { LineEmptyContent, LineNullContent, LineNoDelta, LineNullDelta,
      LineNoChoices, LineEmptyChoices, LineNonObject }

\* the lines that carry a non-empty content
ContentLines == { LineContent, LineIndented }

\* the lines whose processing raises out of the loop
RaisingLines == { LineBadUtf8, LineNullDelta, LineEmptyChoices, LineNonObject }

\* the lines read so far
LinesRead == SubSeq(stream, 1, pos)

\* content chunks among the lines s, counted on the raw lines
ContentIn(s) == { i \in 1..Len(s) : s[i] \in ContentLines }

\* C11: a parsed record without text at choices[0].delta.content (empty or
\* null content, missing or null delta, missing or empty choices, not an
\* object) yields no event: reading it changes neither the counters nor the
\* record and the loop goes on.
C11_NoContentNoEvent ==
    [][ (pc = "read" /\ pos' = pos + 1 /\ stream[pos'] \in NoContentLines)
          => /\ pc' = "read"
             /\ results' = results
             /\ total_tokens' = total_tokens
             /\ first_token_time' = first_token_time ]_vars

\* C12: if at least one content chunk was read and the stream then ends
\* without a sentinel, by a clean close or by being cut off, the record
\* returned is a metrics record that counts the chunks read.
C12_MetricsWithoutDone ==
    ( /\ pc = "return"
      /\ response = 200
      /\ ContentIn(LinesRead) # {}
      /\ \A i \in 1..pos : stream[i] \notin RaisingLines \cup {LineDone} )
    => /\ "error" \notin DOMAIN results
       /\ "total_tokens" \in DOMAIN results
       /\ results["total_tokens"] = Cardinality(ContentIn(LinesRead))


\* C13: if the response status is not 200, no line of the body is read and
\* the record returned holds the key error alone, with the status code in
\* it; the token count stays unset.
C13_BadStatusOnlyError ==
    (pc \in {"read", "finish", "return"} /\ response \notin {0, 200}) =>
        /\ pc = "return"
        /\ pos = 0
        /\ stream = <<>>
        /\ total_tokens = 0
        /\ DOMAIN results = {"error"}
        /\ results["error"] = [kind |-> "HTTP", status |-> response]

\* C13 witness: the server answered 503 and the probe returns the error
\* record.
C13_Witness ==
    /\ pc = "return"
    /\ response = 503
    /\ pos = 0
    /\ DOMAIN results = {"error"}

\* the record r is an error record of a failed request
FaultRecord(r) == "error" \in DOMAIN r /\ r["error"].kind \in Faults

\* C14: a transport fault in the first probe does not abort the run: the
\* probe returns an error record and main's except clause is not entered,
\* the next step of main is the second probe, the combined result that is
\* persisted holds the error record, and the teardown runs.
C14_FaultDoesNotAbort ==
    /\ [](probe = 1 => pc # "except")
    /\ [](pc \in {"post", "read", "finish", "return", "call_essay"} =>
            pending = "none")
    /\ []((FaultRecord(results_basic)
             /\ pc \in {"makedirs", "save", "report"}) =>
            (requests = 2 /\ probe = 2 /\ DOMAIN results_essay # {}))
    /\ [](persisted # <<>> => persisted[1].basic_prompt = results_basic)
    /\ []((MainOver /\ leaf # "none") => TeardownRuns = 1)
    /\ [][ (pc = "return" /\ probe = 1 /\ pc' # pc) =>
             (pc' = "call_essay" /\ results_basic' = results) ]_vars

\* C14 witness: the first probe was cut off in mid-stream after a content
\* chunk, the second probe ran, the combined result was saved and main
\* returned after the teardown.
C14_Witness ==
    /\ pc = "returned"
    /\ DOMAIN results_basic = {"error", "time_to_first_token"}
    /\ results_basic["error"].kind = "Client error"
    /\ requests = 2
    /\ Len(persisted) = 1
    /\ persisted[1].basic_prompt = results_basic
    /\ TeardownRuns = 1

\* a 200-class status
Success(status) == status \in 200..299

\* C15: wait_for_exo raises nothing out of an attempt, whatever its outcome;
\* it goes on polling while no attempt succeeded and the window is open,
\* returns false once the window is over, and returns true only from an
\* attempt that observed a success status.
C15_TimeoutReturnsFalse ==
    [][ /\ (pc = "wait_get" /\ pc' # pc) =>
             /\ pending' = pending
             /\ pc' \in {"wait_sleep", "ready_check"}
             /\ ~Success(response') =>
                  (pc' = "wait_sleep" /\ is_ready' = "unbound")
        /\ (pc = "wait_check" /\ pc' # pc) =>
             /\ pending' = pending
             /\ IF elapsed < WaitTimeout
                THEN pc' = "wait_get" /\ is_ready' = "unbound"
                ELSE pc' = "ready_check" /\ is_ready' = "False"
        /\ (is_ready = "unbound" /\ is_ready' = "True") =>
             (pc = "wait_get" /\ Success(response')) ]_vars

\* C15 witness: the window is over without a success and wait_for_exo has
\* returned false, nothing raised.
C15_Witness ==
    /\ pc = "ready_check"
    /\ is_ready = "False"
    /\ pending = "none"
    /\ requests = 0

\* C16 as stated: an attempt that receives any 200-class status returns true
\* at once.
C16_Any2xxIsReady ==
    [][ (pc = "wait_get" /\ pc' # pc /\ Success(response')) =>
          (pc' = "ready_check" /\ is_ready' = "True") ]_vars

\* C16 as amended: an attempt returns true at once, without sleeping or
\* another attempt, exactly when it receives status 200; any other status,
\* the other 200-class statuses included, is followed by the sleep.
C16_Only200IsReady ==
    [][ (pc = "wait_get" /\ pc' # pc) =>
          IF response' = 200
          THEN pc' = "ready_check" /\ is_ready' = "True"
          ELSE pc' = "wait_sleep" /\ is_ready' = "unbound" ]_vars

\* C16 witness: an attempt received 200 and wait_for_exo returned true.
C16_Witness ==
    /\ pc = "ready_check"
    /\ is_ready = "True"
    /\ response = 200


\* the time the first content chunk among the lines read was read (the
\* request takes one tick, every line one more)
FirstContentTime ==
    1 + CHOOSE i \in ContentIn(LinesRead) :
            \A j \in ContentIn(LinesRead) : i <= j

\* C17: when the loop ends without a fault it has read the lines up to the
\* first sentinel (or all of them); total_tokens is the number of content
\* lines among them, the first included, and time_to_first_token is the
\* time of the first content line, whatever content lines follow it.
C17_CountsContentLines ==
    /\ pc = "finish" =>
         /\ pos = Len(stream) \/ stream[pos] = LineDone
         /\ \A i \in 1..(pos - 1) : stream[i] # LineDone
         /\ total_tokens = Cardinality(ContentIn(LinesRead))
    /\ (pc \in {"read", "finish", "return"}
          /\ "time_to_first_token" \in DOMAIN results) =>
         /\ ContentIn(LinesRead) # {}
         /\ results["time_to_first_token"] = FirstContentTime
         /\ first_token_time = FirstContentTime
    /\ (pc = "return" /\ "total_tokens" \in DOMAIN results) =>
         /\ results["total_tokens"] = Cardinality(ContentIn(LinesRead))
         /\ "time_to_first_token" \in DOMAIN results

\* C17 witness: two content lines were read; the record counts both and
\* keeps the time of the first.
C17_Witness ==
    /\ pc = "return"
    /\ stream = << LineContent, LineContent >>
    /\ DOMAIN results = ThroughputKeys
    /\ results["total_tokens"] = 2
    /\ results["time_to_first_token"] = 2
    /\ results["total_time"] = 4

\* C18: once the finally block has been entered, main comes to its end,
\* also when the server never exits in answer to the termination signal.
C18_TeardownTerminates == (TeardownRuns = 1) ~> MainOver

\* C18 witness: the server ignored the termination signal for good, the wait
\* gave up and the forced kill ended the teardown.
C18_Witness ==
    /\ pc = "end"
    /\ exitDelay = Never
    /\ syscalls = << "getpgid", "killpg", "wait", "kill" >>
    /\ leaf = "killed"


\* records the probe calls have returned to main
Returned ==
    (IF DOMAIN results_basic # {} THEN 1 ELSE 0)
      + (IF DOMAIN results_essay # {} THEN 1 ELSE 0)

\* C19: the probes run one after the other: a request is issued only by the
\* probe call in progress, at most one request is not yet answered by a
\* returned record, the essay call starts only after the basic call has
\* returned its record, and no probe starts before wait_for_exo returned
\* true.
C19_ProbesSequential ==
    /\ requests <= probe
    /\ requests - Returned \in {0, 1}
    /\ probe = 2 => (DOMAIN results_basic # {} /\ requests >= 1)
    /\ pc \in {"post", "read", "finish", "return"} => probe = Returned + 1
    /\ probe >= 1 => is_ready = "True"

\* C19 witness: the essay request is being read, the basic record has been
\* returned.
C19_Witness ==
    /\ pc = "read"
    /\ probe = 2
    /\ requests = 2
    /\ Returned = 1
    /\ DOMAIN results_essay = {}

\* C20: an Exception raised in main between the spawn and the teardown is
\* caught before the finally block and reported, and main then returns
\* normally after the teardown, as a successful run does.
C20_FaultsCaughtMainReturns ==
    /\ pc = "finally" => pending # "Exception"
    /\ pc = "finally" /\ is_ready = "False" => MsgError \in Range(stdout)
    /\ (MainOver /\ MsgError \in Range(stdout)) => pc = "returned"

====
